---- MODULE Spec2Model ----
(***************************************************************************)
(* Model of the data-refresh and view-state engine of the DCA Control      *)
(* Tower front end (frontend/src/App.js): the six useState cells of App,   *)
(* the useEffect that starts the polling, and the async function fetchData *)
(* with its suspension points (Promise.all over three fetches, then three  *)
(* sequential body parses).  JavaScript runs each continuation to          *)
(* completion, so every action below is one such run: the code between two *)
(* awaits, or a whole event handler.                                       *)
(***************************************************************************)
EXTENDS Naturals, Sequences, FiniteSets

\* ---------------------------------------------------------------- bounds
\* Number of fetchData calls (mount + timer ticks + retries) explored.
MaxCycles == 2
\* Number of distinct parseable body versions the backend may send.
NumVersions == 2

\* ------------------------------------------------------------- JS values
Null == [type |-> "null"]
Undefined == [type |-> "undefined"]
Str(s) == [type |-> "string", val |-> s]
EmptyArray == [type |-> "array", items |-> <<>>]

\* `if (x)` of JavaScript for the values the state cells hold.
Truthy(v) == v # Null /\ v # Undefined /\ v # Str("")

\* The three endpoints, in the order of the Promise.all array.
Endpoints == <<"analytics/dashboard", "analytics/dca-performance", "cases?limit=20">>

\* A response body is a version 1..NumVersions of the endpoint's JSON
\* document, or 0 for a body from which json() gets no document: one that is
\* not JSON, or one whose stream breaks before its end.
Bodies == 0..NumVersions

\* The message the code itself throws when a response is not ok.
StatusMsg == Str("Failed to fetch data from API")

\* Every other message is the runtime's: the catch block stores err.message
\* as it comes and the code never looks at the text.  The text varies with
\* the engine, with the fetch implementation and with the first characters
\* of the body ("Failed to fetch" in Chrome and "fetch failed" on node for a
\* rejected fetch; "Unexpected token '<', ..." or "Unexpected end of JSON
\* input", with or without the prefix "Failed to execute 'json' on
\* 'Response': ", for a body that is not JSON; "Failed to fetch" or
\* "terminated" for a broken body stream), so no list of literals holds all
\* of them.  The model keeps of such a message what the code relies on: it
\* is a string, it is not empty, and it is the message of the rejection that
\* was caught.  ErrMessage(op) stands for whatever text the rejection of
\* operation op carried; the two values below may be one and the same text
\* on the screen (in Chrome a broken body stream reads "Failed to fetch").
ErrMessage(op) == [type |-> "string", message_of |-> op]
NetworkMsg == ErrMessage("fetch")
JsonMsg == ErrMessage("json")

\* ---------------------------------------------------------------- state
VARIABLES
    dashboard,       \* useState(null)
    dcaPerformance,  \* useState([])
    cases,           \* useState([])
    loading,         \* useState(true)
    activeTab,       \* useState('dashboard')
    error,           \* useState(null)
    mountState,      \* "initial" (effect not yet run), "mounted", "unmounted"
    interval,        \* TRUE while the setInterval timer is armed
    ticks,           \* number of times the interval has elapsed
    calls,           \* one record per fetchData call, in call order
    lastApplied,     \* the call whose outcome was applied last (0: none yet)
    issued,          \* per endpoint, the number of GET requests issued so far
    healthy          \* environment: TRUE once the backend answers every request well

vars == <<dashboard, dcaPerformance, cases, loading, activeTab, error,
          mountState, interval, ticks, calls, lastApplied, issued, healthy>>

view == <<dashboard, dcaPerformance, cases, loading, error>>

Tabs == {"dashboard", "cases", "dcas"}

\* A fetch() promise of a running call: "pending", "rejected", or fulfilled
\* with a Response whose ok flag is set ("ok") or not ("bad").  The locals of
\* a call that has returned are gone: its settled promises read "dropped".
Settlements == {"rejected", "ok", "bad"}

\* A JS object as the sequence of its [key, value] pairs in the order
\* Object.entries lists them, and a JS number as a decimal with three places.
Obj(entries) == [type |-> "object", entries |-> entries]
Num(int, milli) == [int |-> int, milli |-> milli]

\* The documents the backend sends for the dashboard.  Version 1 carries the
\* aging buckets "0-30" and "31-60", version 2 carries neither map, later
\* versions carry one bucket whose amount is no multiple of a thousand.
Bucket(key, total, count) ==
    [key |-> key, value |-> [total_amount |-> total, count |-> count]]
Tier(key, count) == [key |-> key, value |-> [count |-> count]]

AgingBuckets(b) ==
    CASE b = 1 -> Obj(<<Bucket("0-30", 50000, 5), Bucket("31-60", 20000, 2)>>)
      [] b = 2 -> Undefined
      [] OTHER -> Obj(<<Bucket("61-90", 1500 * b, b)>>)

RiskDistribution(b) ==
    CASE b = 1 -> Obj(<<Tier("LOW", 4), Tier("HIGH", 3)>>)
      [] b = 2 -> Undefined
      [] OTHER -> Obj(<<Tier("MEDIUM", b)>>)

\* Response.json() of a body that parses: the decoded document.
json(e, b) ==
    IF e = 1
    THEN [type |-> "json", endpoint |-> Endpoints[e], ver |-> b,
          aging_buckets |-> AgingBuckets(b),
          risk_distribution |-> RiskDistribution(b)]
    ELSE [type |-> "json", endpoint |-> Endpoints[e], ver |-> b]
Parses(b) == b \in 1..NumVersions

\* Variant: the error panel is shown only while there is no dashboard yet.
Phase_StaleData ==
    IF loading THEN "Loading"
    ELSE IF Truthy(error) /\ dashboard = Null THEN "Failed"
    ELSE "Ready"

\* The rendered branch of App.
Phase ==
    IF loading THEN "Loading"
    ELSE IF Truthy(error) THEN "Failed"
    ELSE "Ready"

\* ---------------------------------------------------------------- derivers
\* x / 1000 for an integer x.
Div1000(x) == Num(x \div 1000, x % 1000)

\* Variant: the amount is passed on without scaling.
agingChartData_NoScale(d) ==
    IF d = Null THEN <<>>
    ELSE IF ~Truthy(d.aging_buckets) THEN <<>>
    ELSE [i \in 1..Len(d.aging_buckets.entries) |->
            LET en == d.aging_buckets.entries[i]
            IN  [name |-> en.key,
                 amount |-> Num(en.value.total_amount, 0),
                 count |-> en.value.count]]

\* dashboard?.aging_buckets ? Object.entries(...).map(...) : []
agingChartData(d) ==
    IF d = Null THEN <<>>
    ELSE IF ~Truthy(d.aging_buckets) THEN <<>>
    ELSE [i \in 1..Len(d.aging_buckets.entries) |->
            LET en == d.aging_buckets.entries[i]
            IN  [name |-> en.key,
                 amount |-> Div1000(en.value.total_amount),
                 count |-> en.value.count]]

\* dashboard?.risk_distribution ? Object.entries(...).map(...) : []
riskPieData(d) ==
    IF d = Null THEN <<>>
    ELSE IF ~Truthy(d.risk_distribution) THEN <<>>
    ELSE [i \in 1..Len(d.risk_distribution.entries) |->
            LET en == d.risk_distribution.entries[i]
            IN  [name |-> en.key, value |-> en.value.count]]

\* What App returns: the spinner, the error panel with its retry button, or
\* the tab bar with the content of the active tab.
Render ==
    CASE Phase = "Loading" ->
           [screen |-> "spinner", retry |-> FALSE, message |-> Null, content |-> <<>>]
      [] Phase = "Failed" ->
           [screen |-> "error", retry |-> TRUE, message |-> error, content |-> <<>>]
      [] Phase = "Ready" ->
           [screen |-> "app", retry |-> FALSE, message |-> Null,
            content |->
              CASE activeTab = "dashboard" ->
                     <<dashboard, agingChartData(dashboard), riskPieData(dashboard),
                       dcaPerformance>>
                [] activeTab = "cases" -> <<cases>>
                [] activeTab = "dcas" -> <<dcaPerformance>>]

Init ==
    /\ dashboard = Null
    /\ dcaPerformance = EmptyArray
    /\ cases = EmptyArray
    /\ loading = TRUE
    /\ activeTab = "dashboard"
    /\ error = Null
    /\ mountState = "initial"
    /\ interval = FALSE
    /\ ticks = 0
    /\ calls = <<>>
    /\ lastApplied = 0
    /\ issued = [e \in 1..3 |-> 0]
    /\ healthy = FALSE

\* --------------------------------------------------------------- fetchData
\* Variant: the status of each response is acted on as soon as it arrives.
PromiseAll_Eager(rs) ==
    IF \E i \in 1..3 : rs[i] = "rejected" THEN "rejected"
    ELSE IF (\A i \in 1..3 : rs[i] \in {"ok", "bad"}) \/ (\E i \in 1..3 : rs[i] = "bad")
    THEN "fulfilled"
    ELSE "pending"

\* Promise.all over the three fetch promises: rejects with the first
\* rejection, fulfils when all three have fulfilled.
PromiseAll(rs) ==
    IF \E i \in 1..3 : rs[i] = "rejected" THEN "rejected"
    ELSE IF \A i \in 1..3 : rs[i] \in {"ok", "bad"} THEN "fulfilled"
    ELSE "pending"

\* Variant: the status check is missing; every response goes on to be parsed.
AnyNotOk_Never(rs) == FALSE

\* Variant: only the first response's status is looked at.
AnyNotOk_DashOnly(rs) == rs[1] = "bad"

\* !dashRes.ok || !dcaRes.ok || !casesRes.ok
AnyNotOk(rs) == rs[1] # "ok" \/ rs[2] # "ok" \/ rs[3] # "ok"

\* The synchronous part of a fetchData call: the three requests are issued
\* and the function suspends on Promise.all.
NewCall(origin) ==
    [origin |-> origin, pc |-> "all", res |-> <<"pending", "pending", "pending">>,
     data |-> <<>>]

\* Variant: every call shows the spinner again (setLoading(true) on entry).
fetchData_Spinner(origin) ==
    /\ calls' = Append(calls, NewCall(origin))
    /\ issued' = [e \in 1..3 |-> issued[e] + 1]
    /\ loading' = TRUE
    /\ UNCHANGED <<dashboard, dcaPerformance, cases, error, lastApplied>>

\* Variant: a call made while another is in flight returns at once.
fetchData_SkipBusy(origin) ==
    /\ LET busy == \E c \in 1..Len(calls) : calls[c].pc \notin {"done", "failed"}
       IN  IF busy
           THEN UNCHANGED <<calls, issued>>
           ELSE /\ calls' = Append(calls, NewCall(origin))
                /\ issued' = [e \in 1..3 |-> issued[e] + 1]
    /\ UNCHANGED <<dashboard, dcaPerformance, cases, loading, error, lastApplied>>

\* The synchronous part of fetchData: three GETs, one per endpoint.
fetchData(origin) ==
    /\ calls' = Append(calls, NewCall(origin))
    /\ issued' = [e \in 1..3 |-> issued[e] + 1]
    /\ UNCHANGED <<dashboard, dcaPerformance, cases, loading, error, lastApplied>>

\* Variant: setDcaPerformance and setCases receive each other's argument.
ApplySuccess_Swapped(dashData, dcaData, casesData) ==
    /\ dashboard' = dashData
    /\ dcaPerformance' = casesData
    /\ cases' = dcaData
    /\ loading' = FALSE
    /\ error' = Null

\* Variant: the success path does not clear the error.
ApplySuccess_KeepError(dashData, dcaData, casesData) ==
    /\ dashboard' = dashData
    /\ dcaPerformance' = dcaData
    /\ cases' = casesData
    /\ loading' = FALSE
    /\ UNCHANGED error

\* The five setters of the success path.
ApplySuccess(dashData, dcaData, casesData) ==
    /\ dashboard' = dashData
    /\ dcaPerformance' = dcaData
    /\ cases' = casesData
    /\ loading' = FALSE
    /\ error' = Null

\* Variant: a failed refresh is ignored once something has been applied.
ApplyFailure_OnlyInitial(msg) ==
    IF loading
    THEN /\ error' = msg
         /\ loading' = FALSE
         /\ UNCHANGED <<dashboard, dcaPerformance, cases>>
    ELSE UNCHANGED <<dashboard, dcaPerformance, cases, loading, error>>

\* Variant: the catch block leaves the spinner on.
ApplyFailure_KeepLoading(msg) ==
    /\ error' = msg
    /\ UNCHANGED <<dashboard, dcaPerformance, cases, loading>>

\* The catch block.
ApplyFailure(msg) ==
    /\ error' = msg
    /\ loading' = FALSE
    /\ UNCHANGED <<dashboard, dcaPerformance, cases>>

\* The call goes on to its next await, or returns.
Suspend(c, rs, pc, data) ==
    calls' = [calls EXCEPT ![c].res = rs, ![c].pc = pc, ![c].data = data]

\* Variant: a call that failed starts over instead of returning.
Return_Retry(c, rs, pc) ==
    /\ calls' = IF pc = "failed"
                THEN [calls EXCEPT ![c] = NewCall(calls[c].origin)]
                ELSE [calls EXCEPT ![c].pc = pc, ![c].data = <<>>,
                        ![c].res = [i \in 1..3 |->
                                      IF rs[i] = "pending" THEN "pending" ELSE "dropped"]]
    /\ lastApplied' = c

\* The function returns: its locals are gone, its outcome has been applied.
Return(c, rs, pc) ==
    /\ calls' = [calls EXCEPT ![c].pc = pc, ![c].data = <<>>,
                 ![c].res = [i \in 1..3 |->
                               IF rs[i] = "pending" THEN "pending" ELSE "dropped"]]
    /\ lastApplied' = c

\* One fetch promise of call c settles.  If the call is still suspended on
\* Promise.all, the continuation runs as far as the next await.
FetchSettle(c, i, s) ==
    /\ c \in 1..Len(calls)
    /\ calls[c].res[i] = "pending"
    /\ UNCHANGED <<activeTab, mountState, interval, ticks, issued, healthy>>
    /\ IF calls[c].pc # "all"
       THEN /\ calls' = [calls EXCEPT ![c].res[i] = "dropped"]
            /\ UNCHANGED <<view, lastApplied>>
       ELSE LET rs == [calls[c].res EXCEPT ![i] = s]
                all == PromiseAll(rs)
            IN  CASE all = "pending" ->
                       /\ Suspend(c, rs, "all", <<>>)
                       /\ UNCHANGED <<view, lastApplied>>
                  [] all = "rejected" ->
                       /\ ApplyFailure(NetworkMsg)
                       /\ Return(c, rs, "failed")
                  [] all = "fulfilled" /\ AnyNotOk(rs) ->
                       /\ ApplyFailure(StatusMsg)
                       /\ Return(c, rs, "failed")
                  [] all = "fulfilled" /\ ~AnyNotOk(rs) ->
                       /\ Suspend(c, rs, "json1", <<>>)
                       /\ UNCHANGED <<view, lastApplied>>

\* The pending `await xRes.json()` of call c settles: json() resolves with
\* the document of body b, or rejects and the catch block stores the message
\* of the rejection.
JsonPcs == <<"json1", "json2", "json3">>

\* Variant: setDashboard is called as soon as the dashboard body is parsed.
JsonSettle_EarlySet(c, k, b) ==
    /\ c \in 1..Len(calls)
    /\ calls[c].pc = JsonPcs[k]
    /\ UNCHANGED <<activeTab, mountState, interval, ticks, issued, healthy>>
    /\ LET rs == calls[c].res
           data == Append(calls[c].data, json(k, b))
       IN  IF ~Parses(b)
           THEN /\ ApplyFailure(JsonMsg)
                /\ Return(c, rs, "failed")
           ELSE IF k = 1
           THEN /\ Suspend(c, rs, JsonPcs[k + 1], data)
                /\ dashboard' = data[1]
                /\ UNCHANGED <<dcaPerformance, cases, loading, error, lastApplied>>
           ELSE IF k < 3
           THEN /\ Suspend(c, rs, JsonPcs[k + 1], data)
                /\ UNCHANGED <<view, lastApplied>>
           ELSE /\ ApplySuccess(data[1], data[2], data[3])
                /\ Return(c, rs, "done")

\* Variant: a success that replaces the error panel shows the first tab.
JsonSettle_ResetTab(c, k, b) ==
    /\ c \in 1..Len(calls)
    /\ calls[c].pc = JsonPcs[k]
    /\ UNCHANGED <<mountState, interval, ticks, issued, healthy>>
    /\ LET rs == calls[c].res
           data == Append(calls[c].data, json(k, b))
       IN  IF ~Parses(b)
           THEN /\ ApplyFailure(JsonMsg)
                /\ Return(c, rs, "failed")
                /\ UNCHANGED activeTab
           ELSE IF k < 3
           THEN /\ Suspend(c, rs, JsonPcs[k + 1], data)
                /\ UNCHANGED <<view, lastApplied, activeTab>>
           ELSE /\ ApplySuccess(data[1], data[2], data[3])
                /\ Return(c, rs, "done")
                /\ activeTab' = IF Phase = "Failed" THEN "dashboard" ELSE activeTab

JsonSettle(c, k, b) ==
    /\ c \in 1..Len(calls)
    /\ calls[c].pc = JsonPcs[k]
    /\ UNCHANGED <<activeTab, mountState, interval, ticks, issued, healthy>>
    /\ LET rs == calls[c].res
           data == Append(calls[c].data, json(k, b))
       IN  IF ~Parses(b)
           THEN /\ ApplyFailure(JsonMsg)
                /\ Return(c, rs, "failed")
           ELSE IF k < 3
           THEN /\ Suspend(c, rs, JsonPcs[k + 1], data)
                /\ UNCHANGED <<view, lastApplied>>
           ELSE /\ ApplySuccess(data[1], data[2], data[3])
                /\ Return(c, rs, "done")

\* --------------------------------------------------------------- scheduler
\* Variant: the effect fetches once and arms no timer.
Mount_NoInterval ==
    /\ mountState = "initial"
    /\ Len(calls) < MaxCycles
    /\ fetchData("mount")
    /\ mountState' = "mounted"
    /\ UNCHANGED <<activeTab, interval, ticks, healthy>>

\* The effect body: fetchData(); setInterval(fetchData, 30000).
Mount ==
    /\ mountState = "initial"
    /\ Len(calls) < MaxCycles
    /\ fetchData("mount")
    /\ mountState' = "mounted"
    /\ interval' = TRUE
    /\ UNCHANGED <<activeTab, ticks, healthy>>

\* Variant: the callback does nothing while a call is in flight.
TimerTick_SkipBusy ==
    /\ interval
    /\ Len(calls) < MaxCycles
    /\ ticks' = ticks + 1
    /\ IF \E c \in 1..Len(calls) : calls[c].pc \notin {"done", "failed"}
       THEN UNCHANGED <<view, calls, lastApplied, issued>>
       ELSE fetchData("timer")
    /\ UNCHANGED <<activeTab, mountState, interval, healthy>>

\* The interval elapses and its callback, fetchData, runs.
TimerTick ==
    /\ interval
    /\ Len(calls) < MaxCycles
    /\ ticks' = ticks + 1
    /\ fetchData("timer")
    /\ UNCHANGED <<activeTab, mountState, interval, healthy>>

\* Variant: the cleanup does not clear the interval.
Unmount_NoClear ==
    /\ mountState = "mounted"
    /\ mountState' = "unmounted"
    /\ UNCHANGED <<view, activeTab, interval, ticks, calls, lastApplied, issued, healthy>>

\* The effect's cleanup: clearInterval(interval).
Unmount ==
    /\ mountState = "mounted"
    /\ mountState' = "unmounted"
    /\ interval' = FALSE
    /\ UNCHANGED <<view, activeTab, ticks, calls, lastApplied, issued, healthy>>

\* ------------------------------------------------------------------ events
\* onClick of the retry button, which exists only in the error panel.
RetryClick ==
    /\ mountState = "mounted"
    /\ Phase = "Failed"
    /\ Len(calls) < MaxCycles
    /\ fetchData("retry")
    /\ UNCHANGED <<activeTab, mountState, interval, ticks, healthy>>

\* Variant: selecting a tab also refreshes the data.
SetActiveTab_Refetch(tab) ==
    /\ mountState = "mounted"
    /\ Phase = "Ready"
    /\ activeTab' = tab
    /\ IF Len(calls) < MaxCycles
       THEN fetchData("retry")
       ELSE UNCHANGED <<view, calls, lastApplied, issued>>
    /\ UNCHANGED <<mountState, interval, ticks, healthy>>

\* onClick of a tab button, which exists only in the dashboard view.
SetActiveTab(tab) ==
    /\ mountState = "mounted"
    /\ Phase = "Ready"
    /\ activeTab' = tab
    /\ UNCHANGED <<view, mountState, interval, ticks, calls, lastApplied, issued, healthy>>

Next ==
    \/ Mount
    \/ TimerTick
    \/ Unmount
    \/ RetryClick
    \/ \E tab \in Tabs : SetActiveTab(tab)
    \/ \E c \in 1..MaxCycles, i \in 1..3, s \in Settlements : FetchSettle(c, i, s)
    \/ \E c \in 1..MaxCycles, k \in 1..3, b \in Bodies : JsonSettle(c, k, b)

Spec == Init /\ [][Next]_vars

\* ------------------------------------------------- recovering backend
\* The view left to itself (no click, no unmount) in front of a backend that
\* recovers: from the step Heal on, every request is answered with an ok
\* response whose body parses.  The timer keeps firing and every request and
\* every body read completes.
Heal ==
    /\ ~healthy
    /\ healthy' = TRUE
    /\ UNCHANGED <<view, activeTab, mountState, interval, ticks, calls,
                   lastApplied, issued>>

LiveFetchSettle(c, i, s) == (healthy => s = "ok") /\ FetchSettle(c, i, s)
LiveJsonSettle(c, k, b) ==
    /\ b \in {0, 1}    \* one document per endpoint is enough here
    /\ healthy => Parses(b)
    /\ JsonSettle(c, k, b)

LiveNext ==
    \/ Mount
    \/ TimerTick
    \/ Heal
    \/ \E c \in 1..MaxCycles, i \in 1..3, s \in Settlements : LiveFetchSettle(c, i, s)
    \/ \E c \in 1..MaxCycles, k \in 1..3, b \in Bodies : LiveJsonSettle(c, k, b)

LiveFairness ==
    /\ WF_vars(TimerTick)
    /\ \A c \in 1..MaxCycles, i \in 1..3 :
          WF_vars(\E s \in Settlements : LiveFetchSettle(c, i, s))
    /\ \A c \in 1..MaxCycles :
          WF_vars(\E k \in 1..3, b \in Bodies : LiveJsonSettle(c, k, b))

LiveSpec == Init /\ [][LiveNext]_vars /\ LiveFairness

\* ---------------------------------------------------------- recovery
\* A second specification, with one call more than Spec: when MaxCycles
\* calls have been started, the retry button and the timer start one further
\* call, under the conditions of RetryClick and TimerTick and no other, and
\* that call runs like any other.  It has every behaviour of Spec.
RecoveryRetry ==
    /\ mountState = "mounted"
    /\ Phase = "Failed"
    /\ Len(calls) = MaxCycles
    /\ fetchData("retry")
    /\ UNCHANGED <<activeTab, mountState, interval, ticks, healthy>>

RecoveryTick ==
    /\ interval
    /\ Len(calls) = MaxCycles
    /\ ticks' = ticks + 1
    /\ fetchData("timer")
    /\ UNCHANGED <<activeTab, mountState, interval, healthy>>

RecoveryNext ==
    \/ Next
    \/ RecoveryRetry
    \/ RecoveryTick
    \/ \E i \in 1..3, s \in Settlements : FetchSettle(MaxCycles + 1, i, s)
    \/ \E k \in 1..3, b \in Bodies : JsonSettle(MaxCycles + 1, k, b)

RecoverySpec == Init /\ [][RecoveryNext]_vars

\* ------------------------------------------------------------- properties
CallIds == 1..Len(calls)
\* Every text a failure can leave in the error cell.
ErrorTexts == {StatusMsg, NetworkMsg, JsonMsg}
Running(c) == calls[c].pc \notin {"done", "failed"}
\* The step applies the outcome of call c to the state cells.
Applies(c) == Running(c) /\ calls'[c].pc \in {"done", "failed"}
AllSettled(rs) == \A i \in 1..3 : rs[i] # "pending"
\* The documents endpoint e can send, as one table.
DocTable == [e \in 1..3 |-> {json(e, b) : b \in 1..NumVersions}]
Docs(e) == DocTable[e]
InitialPayloads ==
    dashboard = Null /\ dcaPerformance = EmptyArray /\ cases = EmptyArray
HoldsPayloads ==
    dashboard \in Docs(1) /\ dcaPerformance \in Docs(2) /\ cases \in Docs(3)

\* C1: when a call whose three responses were ok and whose three bodies
\* parsed applies its result, the view is Ready: loading false, error null,
\* and the three cells hold the call's three decoded documents, each in its
\* own cell and unchanged.
C1_SuccessYieldsReady ==
    [][\A c \in CallIds :
         (calls[c].pc = "json3" /\ calls'[c].pc = "done")
         => /\ calls[c].res = <<"ok", "ok", "ok">>
            /\ loading' = FALSE
            /\ error' = Null
            /\ Phase' = "Ready"
            /\ dashboard' = calls[c].data[1]
            /\ dcaPerformance' = calls[c].data[2]
            /\ cases' \in Docs(3)
            /\ lastApplied' = c]_vars

\* C1 witness: a call has applied a success and the view is Ready with one
\* document per cell.
C1_Witness ==
    \E c \in CallIds :
        /\ calls[c].pc = "done" /\ lastApplied = c
        /\ Phase = "Ready" /\ HoldsPayloads

\* C2: a call leaves Promise.all for the body parses only if all three
\* responses are ok; in every other case (a rejection, or a response that is
\* not ok) it returns with the view Failed, whatever the phase was before.
C2_FailureDominates ==
    [][\A c \in CallIds :
         (calls[c].pc = "all" /\ calls'[c].pc # "all")
         => \/ calls'[c].pc = "json1" /\ calls'[c].res = <<"ok", "ok", "ok">>
            \/ /\ calls'[c].pc = "failed"
               /\ Phase' = "Failed"
               /\ error' \in {StatusMsg, NetworkMsg}
               /\ lastApplied' = c]_vars

\* C2 witness: a status or network failure was applied on top of a view that
\* had been Ready (the payloads of the earlier success are still in place).
C2_Witness ==
    \E c \in CallIds :
        /\ calls[c].pc = "failed" /\ lastApplied = c
        /\ Phase = "Failed" /\ error \in {StatusMsg, NetworkMsg}
        /\ HoldsPayloads

\* C3: the result of an older call is never applied once the result of a
\* newer call has been applied.
C3_StaleResultDiscarded ==
    [][\A c \in CallIds :
         Applies(c) => \A d \in CallIds : d > c => Running(d)]_vars

\* C4: after the cleanup has run, no state cell of the view changes.
C4_NoTransitionAfterTeardown ==
    [][mountState = "unmounted" => UNCHANGED view]_vars

\* C5: when a call started by the retry button (which exists only in the
\* Failed view) applies a success, that very step leaves the view Ready with
\* the retry's documents; the interval does not have to elapse for it.
C5_RetryReachesReady ==
    [][\A c \in CallIds :
         (calls[c].origin = "retry" /\ calls[c].pc = "json3" /\ calls'[c].pc = "done")
         => /\ Phase' = "Ready"
            /\ dashboard' = calls[c].data[1]
            /\ dcaPerformance' = calls[c].data[2]
            /\ cases' \in Docs(3)
            /\ ticks' = ticks
            /\ lastApplied' = c]_vars

\* C5 witness: the mount call failed, the retry succeeded, the view is Ready
\* and the interval has never elapsed.
C5_Witness ==
    /\ Len(calls) = 2 /\ ticks = 0
    /\ calls[1].pc = "failed"
    /\ calls[2].origin = "retry" /\ calls[2].pc = "done" /\ lastApplied = 2
    /\ Phase = "Ready" /\ HoldsPayloads

\* C6 as stated: Loading holds neither payloads nor error, Ready holds
\* payloads and no error, Failed holds an error and no payloads.
C6_Exclusive ==
    /\ Phase = "Loading" => InitialPayloads /\ error = Null
    /\ Phase = "Ready" => HoldsPayloads /\ error = Null
    /\ Phase = "Failed" => error # Null /\ InitialPayloads

\* C6 amended: Loading holds neither payloads nor error, Ready holds
\* payloads and no error, Failed holds an error and the payload cells are as
\* they were before the failure: initial, or the three documents of an
\* earlier success.
C6_ExclusiveButRetained ==
    /\ Phase = "Loading" => InitialPayloads /\ error = Null
    /\ Phase = "Ready" => HoldsPayloads /\ error = Null
    /\ Phase = "Failed" =>
          /\ error \in ErrorTexts
          /\ InitialPayloads \/ HoldsPayloads
    /\ (HoldsPayloads /\ Phase = "Failed") =>
          \E c \in CallIds : calls[c].pc = "done"

\* C6 witness: Failed after Ready, the earlier payloads still held.
C6_Witness ==
    /\ Phase = "Failed" /\ HoldsPayloads
    /\ \E c \in CallIds : calls[c].pc = "failed" /\ lastApplied = c

\* C7: once loading is false it stays false.
C7_LoadingNeverReturns ==
    [][loading = FALSE => loading' = FALSE]_vars

\* C7 witness: the spinner is gone while a later call is in flight.
C7_Witness ==
    /\ loading = FALSE
    /\ \E c \in CallIds : c > 1 /\ Running(c)

\* C8: before the effect runs there is no call and no timer; once it has
\* run, the first call is the mount's and the only one of that origin, the
\* timer is armed while mounted, and the timer has started exactly one call
\* per elapse of the interval, calls in flight or not.
C8_SchedulerStart ==
    /\ mountState = "initial" => calls = <<>> /\ ~interval /\ ticks = 0
    /\ mountState # "initial" =>
          /\ Len(calls) >= 1
          /\ \A c \in CallIds : calls[c].origin = "mount" <=> c = 1
    /\ mountState = "mounted" => interval
    /\ Cardinality({c \in CallIds : calls[c].origin = "timer"}) = ticks

\* C8 witness: the timer has started a call while the mount's call is still
\* suspended on Promise.all.
C8_Witness ==
    /\ Len(calls) >= 2 /\ ticks >= 1
    /\ calls[1].pc = "all"
    /\ calls[2].origin = "timer"

\* C9: after the cleanup no call is started and the interval does not fire.
C9_NoTickAfterUnmount ==
    [][mountState = "unmounted" =>
         Len(calls') = Len(calls) /\ ticks' = ticks /\ ~interval']_vars

\* C9 witness: unmounted with a call in flight and room for further calls.
C9_Witness ==
    /\ mountState = "unmounted"
    /\ Len(calls) < MaxCycles
    /\ \E c \in CallIds : Running(c)

\* C10 as stated: an outcome is applied only when all three requests of the
\* call have completed.
C10_AppliedAfterAllThree ==
    [][\A c \in CallIds : Applies(c) => AllSettled(calls'[c].res)]_vars

\* C10 amended: a success, a status failure and a parse failure are applied
\* only when all three requests have completed; an outcome applied while a
\* request of the call is still pending is the failure of a rejected fetch.
C10_OnlyRejectionIsEarly ==
    [][\A c \in CallIds :
         (Applies(c) /\ ~AllSettled(calls'[c].res))
         => /\ calls[c].pc = "all"
            /\ calls'[c].pc = "failed"
            /\ \E i \in 1..3 : FetchSettle(c, i, "rejected")
            /\ error' = NetworkMsg]_vars

\* C10 witness: the failure of a rejected fetch has been applied while
\* another request of the same call is still pending.
C10_Witness ==
    \E c \in CallIds :
        /\ calls[c].pc = "failed" /\ lastApplied = c
        /\ error = NetworkMsg
        /\ ~AllSettled(calls[c].res)

\* C11: when the last of three responses arrives and one of the three is
\* not ok, the call fails with the status message, without any body having
\* been read; a call fails on reading a body only if its three responses
\* were ok, and then on the first body, in the order dashboard,
\* dca-performance, cases, from which json() gets no document (all earlier
\* ones parsed), with the message of that rejection; a call that fails
\* without reading a body fails with the status message or with the message
\* of a rejected fetch.
C11_ReasonOrdering ==
    [][\A c \in CallIds :
         calls'[c].pc # calls[c].pc =>
         /\ \A i \in 1..3 :
              (/\ calls[c].pc = "all"
               /\ \A j \in 1..3 \ {i} : calls[c].res[j] \in {"ok", "bad"}
               /\ \E s \in {"ok", "bad"} :
                    /\ FetchSettle(c, i, s)
                    /\ s = "bad" \/ \E j \in 1..3 \ {i} : calls[c].res[j] = "bad")
              => (calls'[c].pc = "failed" /\ error' = StatusMsg /\ calls[c].data = <<>>)
         /\ (Applies(c) /\ calls'[c].pc = "failed")
              => \/ /\ calls[c].pc = "all"
                    /\ calls[c].data = <<>>
                    /\ error' \in {StatusMsg, NetworkMsg}
                 \/ /\ calls[c].res = <<"ok", "ok", "ok">>
                    /\ error' = JsonMsg
                    /\ \E k \in 1..3 :
                         /\ calls[c].pc = JsonPcs[k]
                         /\ Len(calls[c].data) = k - 1
                         /\ \A j \in 1..(k - 1) : calls[c].data[j] \in Docs(j)
         /\ (Applies(c) /\ error' = JsonMsg)
              => calls[c].res = <<"ok", "ok", "ok">>]_vars

\* C11 witness: a parse failure has been applied by a call all of whose
\* requests had completed.
C11_Witness ==
    \E c \in CallIds :
        /\ calls[c].pc = "failed" /\ lastApplied = c
        /\ error = JsonMsg
        /\ AllSettled(calls[c].res)

\* C12: every call issues one GET per endpoint and nothing more: the number
\* of requests issued to each endpoint is the number of calls; a request that
\* has completed is never pending again; a call that has returned stays
\* returned; and the view changes only in the step in which a call returns,
\* so each call applies at most one outcome.
C12_NoInternalRetry ==
    [][/\ \A e \in 1..3 : issued'[e] = Len(calls')
       /\ Len(calls') \in {Len(calls), Len(calls) + 1}
       /\ Len(calls') > Len(calls) => view' = view
       /\ \A c \in CallIds :
            /\ calls'[c].origin = calls[c].origin
            /\ ~Running(c) => calls'[c].pc = calls[c].pc
            /\ \A i \in 1..3 :
                 calls[c].res[i] # "pending" => calls'[c].res[i] # "pending"
       /\ view' # view => \E c \in CallIds : Applies(c) /\ lastApplied' = c]_vars

\* C12 witness: two calls have returned, one of them failed, and each
\* endpoint has received exactly two requests.
C12_Witness ==
    /\ Len(calls) = 2
    /\ \A c \in CallIds : ~Running(c)
    /\ \E c \in CallIds : calls[c].pc = "failed"
    /\ issued = [e \in 1..3 |-> 2]

\* C13: while loading, only the spinner is rendered; whenever the outcome
\* applied last is a failure, the error panel with the retry button and the
\* failure's message is rendered and nothing derived from payloads; the tabs
\* and tables are rendered only when the outcome applied last is a success.
C13_RenderLatestOutcome ==
    /\ Phase = "Loading" =>
          Render = [screen |-> "spinner", retry |-> FALSE, message |-> Null,
                    content |-> <<>>]
    /\ (lastApplied # 0 /\ calls[lastApplied].pc = "failed") =>
          /\ Render.screen = "error" /\ Render.retry
          /\ Render.message \in ErrorTexts
          /\ Render.content = <<>>
    /\ Render.screen = "app" =>
          /\ lastApplied # 0 /\ calls[lastApplied].pc = "done"
          /\ HoldsPayloads

\* C13 witness: a failure was applied after a success; the cells still hold
\* the earlier payloads but the error panel is rendered without them.
C13_Witness ==
    /\ lastApplied # 0 /\ calls[lastApplied].pc = "failed"
    /\ HoldsPayloads
    /\ Render.screen = "error" /\ Render.content = <<>>

\* C15: for the dashboard of a Ready view, the aging series has one entry
\* per bucket, in the order of the map, with the bucket's key as name, its
\* count as count and total_amount / 1000 as amount; without aging_buckets
\* the series is empty; for the buckets "0-30" (50000, 5) and "31-60"
\* (20000, 2) it is <<("0-30", 50, 5), ("31-60", 20, 2)>>.
ExampleBuckets == Obj(<<Bucket("0-30", 50000, 5), Bucket("31-60", 20000, 2)>>)
ExampleSeries ==
    <<[name |-> "0-30", amount |-> Num(50, 0), count |-> 5],
      [name |-> "31-60", amount |-> Num(20, 0), count |-> 2]>>

C15_AgingSeries ==
    Phase = "Ready" =>
        LET series == agingChartData(dashboard)
            bs == dashboard.aging_buckets
        IN  /\ bs = Undefined => series = <<>>
            /\ bs # Undefined =>
                 /\ Len(series) = Len(bs.entries)
                 /\ \A i \in 1..Len(series) :
                      /\ DOMAIN series[i] = {"name", "amount", "count"}
                      /\ series[i].name = bs.entries[i].key
                      /\ series[i].count = bs.entries[i].value.count
                      /\ series[i].amount.milli \in 0..999
                      /\ series[i].amount.int * 1000 + series[i].amount.milli
                            = bs.entries[i].value.total_amount
            /\ bs = ExampleBuckets => series = ExampleSeries

\* C15 witness: the Ready view holds the dashboard with the two example
\* buckets and the series derived from it is the example series.
C15_Witness ==
    /\ Phase = "Ready"
    /\ dashboard.aging_buckets = ExampleBuckets
    /\ agingChartData(dashboard) = ExampleSeries

\* C14: under LiveSpec, a Failed view in front of a backend that has
\* recovered, with a timer that can still start a call, eventually is Ready.
C14_FailedRecovers ==
    (Phase = "Failed" /\ healthy /\ Len(calls) < MaxCycles) ~> (Phase = "Ready")

\* C14 witness: after a failed call the backend recovered and a call started
\* by the timer has made the view Ready.
C14_Witness ==
    /\ healthy /\ Phase = "Ready"
    /\ \E c \in CallIds : calls[c].pc = "failed"
    /\ lastApplied # 0
    /\ calls[lastApplied].origin = "timer" /\ calls[lastApplied].pc = "done"

\* C17: the active tab starts as dashboard and is always one of the three
\* tabs; a step that applies a call's outcome, a success that follows a
\* failure that followed a success included, leaves it unchanged; a step
\* that changes it leaves the five view cells unchanged and starts no call.
C17_TabIndependent ==
    /\ activeTab = "dashboard"
    /\ [][/\ activeTab' \in Tabs
          /\ \A c \in CallIds : Applies(c) => activeTab' = activeTab
          /\ view' # view => activeTab' = activeTab
          /\ activeTab' # activeTab =>
                /\ view' = view
                /\ calls' = calls
                /\ issued' = issued]_vars

\* C17 witness: with one earlier call returned with a success and one with
\* a failure, the retry button of the error panel started a further call,
\* which has applied a success: Ready again, with a tab other than the first
\* selected.
C17_Witness ==
    /\ Len(calls) = MaxCycles + 1
    /\ \E c \in 1..MaxCycles : calls[c].pc = "done"
    /\ \E c \in 1..MaxCycles : calls[c].pc = "failed"
    /\ calls[MaxCycles + 1].origin = "retry"
    /\ calls[MaxCycles + 1].pc = "done" /\ lastApplied = MaxCycles + 1
    /\ Phase = "Ready"
    /\ activeTab # "dashboard"

\* C18: the phase and the error are those of the call that returned last,
\* whatever the order in which the calls were started: Loading while none
\* has returned, Ready with no error after a success, Failed with the
\* failure's message after a failure.
C18_LastCompletedWins ==
    /\ lastApplied = 0 =>
          /\ Phase = "Loading"
          /\ \A c \in CallIds : Running(c)
    /\ lastApplied # 0 =>
          /\ lastApplied \in CallIds
          /\ calls[lastApplied].pc = "done" => Phase = "Ready" /\ error = Null
          /\ calls[lastApplied].pc = "failed" =>
                Phase = "Failed" /\ error \in ErrorTexts
          /\ calls[lastApplied].pc \in {"done", "failed"}

\* C18 witness: call 2 was started after call 1 and returned first with a
\* success; call 1 returned last with a failure, and the view is Failed.
C18_Witness ==
    /\ Len(calls) >= 2
    /\ calls[2].pc = "done"
    /\ calls[1].pc = "failed" /\ lastApplied = 1
    /\ Phase = "Failed"

\* C19: the three payload cells are either all initial or all documents; a
\* step that changes any of them is the success step of one call and sets
\* all three to that call's own documents; a step in which a call fails
\* changes none of them.
C19_PayloadsFromOneCall ==
    [][/\ <<dashboard', dcaPerformance', cases'>> # <<dashboard, dcaPerformance, cases>>
            => \E c \in CallIds :
                  /\ calls[c].pc = "json3" /\ calls'[c].pc = "done"
                  /\ dashboard' = calls[c].data[1]
                  /\ dcaPerformance' = calls[c].data[2]
                  /\ cases' \in Docs(3)
       /\ \A c \in CallIds :
            (Applies(c) /\ calls'[c].pc = "failed")
            => <<dashboard', dcaPerformance', cases'>> = <<dashboard, dcaPerformance, cases>>
       /\ \/ dashboard' = Null /\ dcaPerformance' = EmptyArray /\ cases' = EmptyArray
          \/ dashboard' \in Docs(1) /\ dcaPerformance' \in Docs(2) /\ cases' \in Docs(3)]_vars

\* C19 witness: the view holds the payloads of one call while an overlapping
\* call has already decoded a different dashboard and not applied it.
C19_Witness ==
    /\ HoldsPayloads
    /\ \E c \in CallIds :
          /\ calls[c].pc = "json3"
          /\ calls[c].data[1] # dashboard
          /\ calls[c].data[2] # dcaPerformance

\* C20 as stated: a call one of whose requests has not completed has
\* applied no outcome; the timer has started a call on every elapse, calls
\* in flight or not; and the phase is Loading exactly as long as no call has
\* applied an outcome.
C20_HungAppliesNothing ==
    /\ \A c \in CallIds :
          (\E i \in 1..3 : calls[c].res[i] = "pending") => Running(c)
    /\ Cardinality({c \in CallIds : calls[c].origin = "timer"}) = ticks
    /\ Phase = "Loading" <=> lastApplied = 0
    /\ Phase = "Loading" <=> \A c \in CallIds : Running(c)

\* C20 amended: a call one of whose requests has not completed has applied
\* no success and reads no body; it applies an outcome only in the step in
\* which another of its requests rejects, and that outcome is Failed; a call
\* still suspended on Promise.all has a request pending and has applied
\* nothing; the timer has started a call on every elapse, calls in flight or
\* not; and the phase is Loading exactly as long as no call has applied an
\* outcome.
C20_HungCallBlocksOnlyItself ==
    /\ [](/\ \A c \in CallIds :
               /\ (\E i \in 1..3 : calls[c].res[i] = "pending")
                     => calls[c].pc \in {"all", "failed"}
               /\ calls[c].pc = "all" =>
                     /\ \E i \in 1..3 : calls[c].res[i] = "pending"
                     /\ lastApplied # c
          /\ Cardinality({c \in CallIds : calls[c].origin = "timer"}) = ticks
          /\ Phase = "Loading" <=> lastApplied = 0
          /\ Phase = "Loading" <=> \A c \in CallIds : Running(c))
    /\ [][\A c \in CallIds :
            (Applies(c) /\ \E i \in 1..3 : calls'[c].res[i] = "pending")
            => /\ \E i \in 1..3 : FetchSettle(c, i, "rejected")
               /\ calls'[c].pc = "failed"
               /\ Phase' = "Failed"
               /\ <<dashboard', dcaPerformance', cases'>> = <<dashboard, dcaPerformance, cases>>]_vars

\* C20 witness: the mount's call is still waiting for a response while a
\* later call has been started, has returned and has made the view Ready.
C20_Witness ==
    /\ Len(calls) >= 2
    /\ calls[1].pc = "all"
    /\ calls[2].pc = "done" /\ lastApplied = 2
    /\ Phase = "Ready"

TypeOK ==
    /\ loading \in BOOLEAN
    /\ activeTab \in Tabs
    /\ mountState \in {"initial", "mounted", "unmounted"}
    /\ interval \in BOOLEAN
    /\ ticks \in 0..MaxCycles
    /\ Len(calls) <= MaxCycles
    /\ lastApplied \in 0..Len(calls)
====
